---- MODULE Spec2Model ----
(***************************************************************************)
(* Model of AndroidMarketCrawler (crawler.py): the pull iterator next(),   *)
(* the green pool of fetch_content tasks, the URL queue, the results queue *)
(* and the two dedup sets.  eventlet schedules cooperatively: the caller   *)
(* of next() gives up control only inside a blocking queue.get (empty      *)
(* queue) and inside a blocking pool.spawn_n (pool full); a task gives up  *)
(* control only inside urlopen() and resp.read().                          *)
(***************************************************************************)
EXTENDS Integers, Sequences, FiniteSets, Bags, TLC

VARIABLES concurrency, queue, results, seen, seen_app_ids, failed, tasks, mainpc, url,
          pushed, delivered, signalled, dispatchCount, outcome, dropped,
          lastReturn, page_links

vars == <<concurrency, queue, results, seen, seen_app_ids, failed, tasks, mainpc, url,
          pushed, delivered, signalled, dispatchCount, outcome, dropped,
          lastReturn, page_links>>

\* ---------------------------------------------------------------- bounds
\* largest concurrency argument given to the constructor
MaxConcurrency == 2
\* most <a href> elements a fetched page carries
MaxLinks == 2

\* ------------------------------------------------------------------ URLs
None == "None"
Market == "https://market.android.com"

\* a URL is its host prefix ("" for a relative link), its path and the list
\* of key=value parts of its query string
\* the empty string, the timeout_value of line 96
NoUrl == [host |-> "", path |-> "", query |-> <<>>]
Root == [host |-> Market, path |-> "/", query |-> <<>>]
HrefA == [host |-> "", path |-> "/details", query |-> << <<"id", "A">> >>]
HrefA2 == [host |-> "", path |-> "/details", query |-> << <<"id", "A">>, <<"feature", "x">> >>]
HrefB == [host |-> "", path |-> "/details", query |-> << <<"id", "B">> >>]

\* the href attributes a fetched page may carry
Hrefs == {HrefA, HrefA2}

absolute_url(u) == IF u.host = "" THEN [u EXCEPT !.host = Market] ELSE u

AppA == absolute_url(HrefA)
AppA2 == absolute_url(HrefA2)
AppB == absolute_url(HrefB)
URLs == {Root} \cup {absolute_url(h) : h \in Hrefs \cup {HrefB}}

RECURSIVE query_vars_from(_, _)
query_vars_from(parts, v) ==
    IF parts = <<>> THEN v
    ELSE LET key == Head(parts)[1]
             val == Head(parts)[2]
         IN query_vars_from(Tail(parts),
                [k \in DOMAIN v \cup {key} |-> IF k = key THEN val ELSE v[k]])

query_vars(u) == query_vars_from(u.query, <<>>)

get_id(u) ==
    LET params == query_vars(u)
    IN IF "id" \in DOMAIN params THEN params["id"] ELSE None

\* ------------------------------------------------------------ documents
\* what the selectors of is_page_valid / fetch_app_info see in a page:
\*   kind   "app"     div.apps.details-page with an Apps breadcrumb
\*          "devlist" h1.page-banner-text starting with "apps by"
\*          "other"   neither (music, movies, ...)
\*   links  the hrefs matching /(details|developer)? in document order
\*   broken a field selector of fetch_app_info raises on this page
PageKinds == {"app", "devlist", "other"}

RECURSIVE SeqsUpTo(_, _)
SeqsUpTo(S, n) ==
    IF n = 0 THEN {<<>>}
    ELSE LET shorter == SeqsUpTo(S, n - 1)
         IN shorter \cup {Append(q, x) : q \in shorter, x \in S}

\* a page's matching hrefs in document order
LinkLists == SeqsUpTo(Hrefs, MaxLinks)

Docs == [kind : PageKinds, links : LinkLists, broken : BOOLEAN]

is_page_valid(u, doc) ==
    IF u = Root THEN TRUE
    ELSE IF u.path \notin {"/details", "/developer"} THEN FALSE
    ELSE LET params == query_vars(u)
         IN IF "id" \notin DOMAIN params /\ "pub" \notin DOMAIN params THEN FALSE
            ELSE IF u.path = "/developer" THEN doc.kind = "devlist"
            ELSE doc.kind = "app"

NoInfo == [raised |-> FALSE]
Raise == [raised |-> TRUE]

\* NoInfo (return None), Raise, or the app_info record (uid plus the fields
\* read from doc)
fetch_app_info(u, doc) ==
    LET params == query_vars(u)
    IN IF "id" \notin DOMAIN params THEN NoInfo
       ELSE IF doc.kind # "app" THEN NoInfo
       ELSE IF doc.broken THEN Raise
       ELSE [uid |-> params["id"], page |-> u]

RECURSIVE Range(_)
Range(q) == IF q = <<>> THEN {} ELSE {Head(q)} \cup Range(Tail(q))

RECURSIVE AbsoluteAll(_)
AbsoluteAll(links) ==
    IF links = <<>> THEN <<>>
    ELSE <<absolute_url(Head(links))>> \o AbsoluteAll(Tail(links))

\* ----------------------------------------------------------------- state
\* url is the local of next(); it is kept only while spawn_n is pending on
\* it, the one place that reads it after lines 99-103
\* lastReturn is how the last call of next() ended: by the return of line 88
\* ("fast"), by the return of line 109 ("loop") or by line 111 ("stop")
\* page_links[u] is all_links of lines 152-158 for the page fetched from u,
\* as absolute URLs
\* a task is a green thread running fetch_content(url); pc is the call it
\* is suspended in
Task(u, pc) == [url |-> u, pc |-> pc]

running == BagCardinality(tasks)

Init ==
    /\ concurrency \in 1..MaxConcurrency
    /\ queue = <<Root>>
    /\ results = <<>>
    /\ seen = {}
    /\ seen_app_ids = {}
    /\ failed = 0
    /\ tasks = EmptyBag
    /\ mainpc = "idle"
    /\ url = NoUrl
    /\ pushed = <<>>
    /\ delivered = <<>>
    /\ signalled = FALSE
    /\ dispatchCount = [u \in URLs |-> 0]
    /\ outcome = [u \in URLs |-> "none"]
    /\ dropped = {}
    /\ lastReturn = "none"
    /\ page_links = [u \in URLs |-> {}]

history == <<pushed, delivered, signalled, dispatchCount, outcome, dropped,
             lastReturn, page_links>>
shared == <<concurrency, queue, results, seen, seen_app_ids, failed, tasks>>

\* ------------------------------------------------------ next(): the pull
\* results.get() on a LIFO queue: the newest record is returned
ReturnResult_Lifo ==
    /\ results' = SubSeq(results, 1, Len(results) - 1)
    /\ delivered' = Append(delivered, results[Len(results)])
    /\ mainpc' = "idle"
    /\ url' = NoUrl

\* return self.results.get() on a non-empty results queue
ReturnResult ==
    /\ results' = Tail(results)
    /\ delivered' = Append(delivered, Head(results))
    /\ mainpc' = "idle"
    /\ url' = NoUrl

\* spawn_n on a pool that never makes the caller wait for a free slot
spawn_n_NoSemaphore(u) ==
    /\ tasks' = tasks (+) SetToBag({Task(u, "urlopen")})
    /\ dispatchCount' = [dispatchCount EXCEPT ![u] = @ + 1]
    /\ mainpc' = "check"
    /\ url' = NoUrl

\* self.pool.spawn_n(self.fetch_content, u): GreenPool.spawn_n acquires the
\* pool semaphore first, so the caller blocks while the pool is full
spawn_n(u) ==
    IF running < concurrency
    THEN /\ tasks' = tasks (+) SetToBag({Task(u, "urlopen")})
         /\ dispatchCount' = [dispatchCount EXCEPT ![u] = @ + 1]
         /\ mainpc' = "check"
         /\ url' = NoUrl
    ELSE /\ mainpc' = "spawn"
         /\ url' = u
         /\ UNCHANGED <<tasks, dispatchCount>>

\* lines 99-104 with line 103 assigning a fresh set instead of adding
Dispatch_ResetsSeen(u) ==
    IF u \in seen
    THEN /\ mainpc' = "while"
         /\ dropped' = dropped \cup {<<u, "seen">>}
         /\ UNCHANGED <<seen, tasks, dispatchCount, url>>
    ELSE IF get_id(u) \in seen_app_ids
    THEN /\ mainpc' = "while"
         /\ dropped' = dropped \cup {<<u, "seen_app_ids">>}
         /\ UNCHANGED <<seen, tasks, dispatchCount, url>>
    ELSE /\ seen' = {u}
         /\ spawn_n(u)
         /\ UNCHANGED dropped

\* lines 99-104 with line 103 moved before the test of line 102
Dispatch_IdGateMarksSeen(u) ==
    IF u \in seen
    THEN /\ mainpc' = "while"
         /\ dropped' = dropped \cup {<<u, "seen">>}
         /\ UNCHANGED <<seen, tasks, dispatchCount, url>>
    ELSE IF get_id(u) \in seen_app_ids
    THEN /\ mainpc' = "while"
         /\ dropped' = dropped \cup {<<u, "seen_app_ids">>}
         /\ seen' = seen \cup {u}
         /\ UNCHANGED <<tasks, dispatchCount, url>>
    ELSE /\ seen' = seen \cup {u}
         /\ spawn_n(u)
         /\ UNCHANGED dropped

\* lines 99-104 without the test of line 100
Dispatch_NoSeenCheck(u) ==
    IF get_id(u) \in seen_app_ids
    THEN /\ mainpc' = "while"
         /\ dropped' = dropped \cup {<<u, "seen_app_ids">>}
         /\ UNCHANGED <<seen, tasks, dispatchCount, url>>
    ELSE /\ seen' = seen \cup {u}
         /\ spawn_n(u)
         /\ UNCHANGED dropped

\* lines 99-104, for the URL u that queue.get returned
Dispatch(u) ==
    IF u \in seen
    THEN /\ mainpc' = "while"
         /\ dropped' = dropped \cup {<<u, "seen">>}
         /\ UNCHANGED <<seen, tasks, dispatchCount, url>>
    ELSE IF get_id(u) \in seen_app_ids
    THEN /\ mainpc' = "while"
         /\ dropped' = dropped \cup {<<u, "seen_app_ids">>}
         /\ UNCHANGED <<seen, tasks, dispatchCount, url>>
    ELSE /\ seen' = seen \cup {u}
         /\ spawn_n(u)
         /\ UNCHANGED dropped

\* next() without lines 87-88: the loop is entered whatever results holds
NextCall_NoFastPath ==
    /\ mainpc = "idle"
    /\ mainpc' = "while"
    /\ UNCHANGED <<concurrency, queue, results, seen, seen_app_ids, failed, tasks, url, history>>

\* next() is called: lines 87-88, the fast path, else enter the loop
NextCall ==
    /\ mainpc = "idle"
    /\ IF results # <<>>
       THEN /\ ReturnResult
            /\ lastReturn' = "fast"
            /\ UNCHANGED <<concurrency, queue, seen, seen_app_ids, failed, tasks,
                           pushed, signalled, dispatchCount, outcome, dropped, page_links>>
       ELSE /\ mainpc' = "while"
            /\ UNCHANGED <<concurrency, queue, results, seen, seen_app_ids, failed, tasks, url, history>>

\* line 92, and line 111 when the condition is false
WhileTest ==
    /\ mainpc = "while"
    /\ IF queue # <<>> \/ running # 0
       THEN /\ mainpc' = "get"
            /\ UNCHANGED <<url, signalled, lastReturn>>
       ELSE /\ mainpc' = "idle"
            /\ url' = NoUrl
            /\ signalled' = TRUE
            /\ lastReturn' = "stop"
    /\ UNCHANGED <<shared, pushed, delivered, dispatchCount, outcome, dropped, page_links>>

\* line 96 on a non-empty queue returns at once; on an empty queue the
\* caller is suspended in queue.get
QueueGet ==
    /\ mainpc = "get"
    /\ IF queue # <<>>
       THEN /\ queue' = Tail(queue)
            /\ Dispatch(Head(queue))
            /\ UNCHANGED <<concurrency, results, seen_app_ids, failed,
                           pushed, delivered, signalled, outcome, lastReturn, page_links>>
       ELSE /\ mainpc' = "wait"
            /\ UNCHANGED <<shared, url, history>>

\* a put on the queue hands its head to the suspended getter
GetWake ==
    /\ mainpc = "wait"
    /\ queue # <<>>
    /\ queue' = Tail(queue)
    /\ Dispatch(Head(queue))
    /\ UNCHANGED <<concurrency, results, seen_app_ids, failed,
                   pushed, delivered, signalled, outcome, lastReturn, page_links>>

\* line 96 as a plain self.queue.get(): the wait never expires
GetTimeout_Blocking ==
    /\ mainpc = "wait"
    /\ FALSE
    /\ UNCHANGED vars

\* with_timeout(0.1, ..., timeout_value='') expires: url is '' and lines
\* 99-104 are skipped
GetTimeout ==
    /\ mainpc = "wait"
    /\ url' = NoUrl
    /\ mainpc' = "check"
    /\ UNCHANGED <<shared, history>>

\* a task has released the pool semaphore: the blocked spawn_n goes on
SpawnResume ==
    /\ mainpc = "spawn"
    /\ running < concurrency
    /\ spawn_n(url)
    /\ UNCHANGED <<concurrency, queue, results, seen, seen_app_ids, failed,
                   pushed, delivered, signalled, outcome, dropped, lastReturn, page_links>>

\* lines 108-109, then back to line 92
CheckResults ==
    /\ mainpc = "check"
    /\ IF results # <<>>
       THEN /\ ReturnResult
            /\ lastReturn' = "loop"
            /\ UNCHANGED <<concurrency, queue, seen, seen_app_ids, failed, tasks,
                           pushed, signalled, dispatchCount, outcome, dropped, page_links>>
       ELSE /\ mainpc' = "while"
            /\ UNCHANGED <<concurrency, queue, results, seen, seen_app_ids, failed, tasks, url, history>>

\* ------------------------------------------------- fetch_content: a task
\* green threads run only while the caller of next() is suspended (in
\* queue.get or spawn_n) or while the consumer itself yields between pulls
TasksMayRun == mainpc \in {"idle", "wait", "spawn"}

\* the task returns: GreenPool._spawn_done releases its slot
Finish(t) == tasks' = tasks (-) SetToBag({t})

StatusCodes == {200, 404, 500}

\* lines 125-135 with line 129 counting the 404 as a failure too
FetchResponse_CountsNotFound(t, code) ==
    /\ TasksMayRun
    /\ BagIn(t, tasks)
    /\ t.pc = "urlopen"
    /\ IF code # 200
       THEN /\ failed' = failed + 1
            /\ Finish(t)
            /\ outcome' = [outcome EXCEPT ![t.url] = IF code = 404 THEN "notfound" ELSE "failed"]
            /\ UNCHANGED queue
       ELSE /\ tasks' = (tasks (-) SetToBag({t})) (+) SetToBag({Task(t.url, "read")})
            /\ UNCHANGED <<failed, outcome, queue>>
    /\ UNCHANGED <<concurrency, results, seen, seen_app_ids, mainpc, url,
                   pushed, delivered, signalled, dispatchCount, dropped, lastReturn, page_links>>

\* lines 125-135 with a failed fetch putting its URL back on the queue
FetchResponse_Retry(t, code) ==
    /\ TasksMayRun
    /\ BagIn(t, tasks)
    /\ t.pc = "urlopen"
    /\ IF code = 404
       THEN /\ Finish(t)
            /\ outcome' = [outcome EXCEPT ![t.url] = "notfound"]
            /\ queue' = Append(queue, t.url)
            /\ UNCHANGED failed
       ELSE IF code # 200
       THEN /\ failed' = failed + 1
            /\ Finish(t)
            /\ outcome' = [outcome EXCEPT ![t.url] = "failed"]
            /\ queue' = Append(queue, t.url)
       ELSE /\ tasks' = (tasks (-) SetToBag({t})) (+) SetToBag({Task(t.url, "read")})
            /\ UNCHANGED <<failed, outcome, queue>>
    /\ UNCHANGED <<concurrency, results, seen, seen_app_ids, mainpc, url,
                   pushed, delivered, signalled, dispatchCount, dropped, lastReturn, page_links>>

\* lines 125-135: urlopen returns with a status code
FetchResponse(t, code) ==
    /\ TasksMayRun
    /\ BagIn(t, tasks)
    /\ t.pc = "urlopen"
    /\ IF code = 404
       THEN /\ Finish(t)
            /\ outcome' = [outcome EXCEPT ![t.url] = "notfound"]
            /\ UNCHANGED failed
       ELSE IF code # 200
       THEN /\ failed' = failed + 1
            /\ Finish(t)
            /\ outcome' = [outcome EXCEPT ![t.url] = "failed"]
       ELSE /\ tasks' = (tasks (-) SetToBag({t})) (+) SetToBag({Task(t.url, "read")})
            /\ UNCHANGED <<failed, outcome>>
    /\ UNCHANGED <<concurrency, queue, results, seen, seen_app_ids, mainpc, url,
                   pushed, delivered, signalled, dispatchCount, dropped, lastReturn, page_links>>

\* lines 138-139 raise (resp.read() or the parser): caught at line 172
ReadFails(t) ==
    /\ TasksMayRun
    /\ BagIn(t, tasks)
    /\ t.pc = "read"
    /\ Finish(t)
    /\ outcome' = [outcome EXCEPT ![t.url] = "unreadable"]
    /\ UNCHANGED <<concurrency, queue, results, seen, seen_app_ids, failed, mainpc, url,
                   pushed, delivered, signalled, dispatchCount, dropped, lastReturn, page_links>>

\* lines 160-163
EnqueueLinks(q, links) == q \o AbsoluteAll(links)

\* lines 167-171, for the value app_info that fetch_app_info gave
PushAppInfo(app_info) ==
    IF app_info \in {NoInfo, Raise}
    THEN UNCHANGED <<seen_app_ids, results, pushed>>
    ELSE /\ seen_app_ids' = seen_app_ids \cup {app_info.uid}
         /\ results' = Append(results, app_info)
         /\ pushed' = Append(pushed, app_info)

\* lines 138-178 with the task itself starting the fetch of its first link
\* (a spawn from inside the green thread) besides queueing the links
ProcessPage_SpawnsLinks(t, doc) ==
    /\ TasksMayRun
    /\ BagIn(t, tasks)
    /\ t.pc = "read"
    /\ IF ~is_page_valid(t.url, doc)
       THEN /\ outcome' = [outcome EXCEPT ![t.url] = "invalid"]
            /\ Finish(t)
            /\ UNCHANGED <<queue, seen_app_ids, results, pushed, page_links, dispatchCount>>
       ELSE /\ page_links' = [page_links EXCEPT ![t.url] = Range(AbsoluteAll(doc.links))]
            /\ queue' = EnqueueLinks(queue, doc.links)
            /\ PushAppInfo(fetch_app_info(t.url, doc))
            /\ outcome' = [outcome EXCEPT ![t.url] =
                   IF fetch_app_info(t.url, doc) = NoInfo THEN "links"
                   ELSE IF fetch_app_info(t.url, doc) = Raise THEN "raised"
                   ELSE "record"]
            /\ IF doc.links = <<>>
               THEN Finish(t) /\ UNCHANGED dispatchCount
               ELSE /\ tasks' = (tasks (-) SetToBag({t}))
                                   (+) SetToBag({Task(absolute_url(Head(doc.links)), "urlopen")})
                    /\ dispatchCount' =
                          [dispatchCount EXCEPT ![absolute_url(Head(doc.links))] = @ + 1]
    /\ UNCHANGED <<concurrency, seen, failed, mainpc, url,
                   delivered, signalled, dropped, lastReturn>>

\* lines 138-178 with fetch_app_info (line 167) called before the links are
\* put on the queue, so that a raise leaves the queue as it was
ProcessPage_ExtractBeforeLinks(t, doc) ==
    /\ TasksMayRun
    /\ BagIn(t, tasks)
    /\ t.pc = "read"
    /\ IF ~is_page_valid(t.url, doc)
       THEN /\ outcome' = [outcome EXCEPT ![t.url] = "invalid"]
            /\ UNCHANGED <<queue, seen_app_ids, results, pushed, page_links>>
       ELSE /\ page_links' = [page_links EXCEPT ![t.url] = Range(AbsoluteAll(doc.links))]
            /\ queue' = IF fetch_app_info(t.url, doc) = Raise
                         THEN queue
                         ELSE EnqueueLinks(queue, doc.links)
            /\ PushAppInfo(fetch_app_info(t.url, doc))
            /\ outcome' = [outcome EXCEPT ![t.url] =
                   IF fetch_app_info(t.url, doc) = NoInfo THEN "links"
                   ELSE IF fetch_app_info(t.url, doc) = Raise THEN "raised"
                   ELSE "record"]
    /\ Finish(t)
    /\ UNCHANGED <<concurrency, seen, failed, mainpc, url,
                   delivered, signalled, dispatchCount, dropped, lastReturn>>

\* lines 138-178 with the links of lines 160-163 pushed before the test of
\* line 144
ProcessPage_LinksBeforeValid(t, doc) ==
    /\ TasksMayRun
    /\ BagIn(t, tasks)
    /\ t.pc = "read"
    /\ queue' = EnqueueLinks(queue, doc.links)
    /\ IF ~is_page_valid(t.url, doc)
       THEN /\ outcome' = [outcome EXCEPT ![t.url] = "invalid"]
            /\ UNCHANGED <<seen_app_ids, results, pushed, page_links>>
       ELSE /\ page_links' = [page_links EXCEPT ![t.url] = Range(AbsoluteAll(doc.links))]
            /\ PushAppInfo(fetch_app_info(t.url, doc))
            /\ outcome' = [outcome EXCEPT ![t.url] =
                   IF fetch_app_info(t.url, doc) = NoInfo THEN "links"
                   ELSE IF fetch_app_info(t.url, doc) = Raise THEN "raised"
                   ELSE "record"]
    /\ Finish(t)
    /\ UNCHANGED <<concurrency, seen, failed, mainpc, url,
                   delivered, signalled, dispatchCount, dropped, lastReturn>>

\* lines 138-178 with the page read and parsed as doc
ProcessPage(t, doc) ==
    /\ TasksMayRun
    /\ BagIn(t, tasks)
    /\ t.pc = "read"
    /\ IF ~is_page_valid(t.url, doc)
       THEN /\ outcome' = [outcome EXCEPT ![t.url] = "invalid"]
            /\ UNCHANGED <<queue, seen_app_ids, results, pushed, page_links>>
       ELSE /\ page_links' = [page_links EXCEPT ![t.url] = Range(AbsoluteAll(doc.links))]
            /\ queue' = EnqueueLinks(queue, doc.links)
            /\ PushAppInfo(fetch_app_info(t.url, doc))
            /\ outcome' = [outcome EXCEPT ![t.url] =
                   IF fetch_app_info(t.url, doc) = NoInfo THEN "links"
                   ELSE IF fetch_app_info(t.url, doc) = Raise THEN "raised"
                   ELSE "record"]
    /\ Finish(t)
    /\ UNCHANGED <<concurrency, seen, failed, mainpc, url,
                   delivered, signalled, dispatchCount, dropped, lastReturn>>

TaskStates == {Task(u, pc) : u \in URLs, pc \in {"urlopen", "read"}}

Next ==
    \/ NextCall
    \/ WhileTest
    \/ QueueGet
    \/ GetWake
    \/ GetTimeout
    \/ SpawnResume
    \/ CheckResults
    \/ \E t \in TaskStates, code \in StatusCodes : FetchResponse(t, code)
    \/ \E t \in TaskStates : ReadFails(t)
    \/ \E t \in TaskStates, doc \in Docs : ProcessPage(t, doc)

Spec == Init /\ [][Next]_vars

\* ------------------------------------------------------------ fairness
MainStep ==
    \/ NextCall
    \/ WhileTest
    \/ QueueGet
    \/ GetWake
    \/ GetTimeout
    \/ SpawnResume
    \/ CheckResults

TaskStep ==
    \/ \E t \in TaskStates, code \in StatusCodes : FetchResponse(t, code)
    \/ \E t \in TaskStates : ReadFails(t)
    \/ \E t \in TaskStates, doc \in Docs : ProcessPage(t, doc)

\* the consumer keeps pulling and the 0.1 s timeout always expires; every
\* fetch is answered, and the hub runs the answered task the next time the
\* caller of next() is suspended
LiveSpec == Init /\ [][Next]_vars /\ WF_vars(MainStep) /\ SF_vars(TaskStep)

\* C4: a consumer that keeps calling next() is eventually given the
\* completion signal
C4_Terminates == <>signalled

\* witness of C4: a crawl of the seed and both app pages ran to completion
\* and delivered a record on the way
C4_CrawlCompleted ==
    /\ signalled
    /\ delivered # <<>>
    /\ Cardinality(seen) = 3

\* ------------------------------------------------- the scenario of C8
\* the seed page: of interest, with app markup, and with links to three new
\* URLs in any document order
ScenarioHrefs == {HrefA, HrefA2, HrefB}

SeedDocs ==
    {[kind |-> "app", links |-> <<h1, h2, h3>>, broken |-> FALSE] :
        <<h1, h2, h3>> \in {q \in ScenarioHrefs \X ScenarioHrefs \X ScenarioHrefs :
                               Cardinality({q[1], q[2], q[3]}) = 3}}

ScenarioFetch == \E t \in TaskStates : FetchResponse(t, IF t.url = Root THEN 200 ELSE 404)

ScenarioSeedPage == \E doc \in SeedDocs : ProcessPage(Task(Root, "read"), doc)

ScenarioNext ==
    \/ NextCall
    \/ WhileTest
    \/ QueueGet
    \/ GetWake
    \/ GetTimeout
    \/ SpawnResume
    \/ CheckResults
    \/ ScenarioFetch
    \/ ScenarioSeedPage

ScenarioSpec == Init /\ [][ScenarioNext]_vars

\* --------------------------------------------------------------- claims
\* C1: whenever next() raises StopIteration the queue is empty, no task is
\* running and the results queue is empty
C1_CompletionMeansAllEmpty ==
    [][(mainpc = "while" /\ mainpc' = "idle")
          => (queue = <<>> /\ running = 0 /\ results = <<>>)]_vars

\* C2: once next() has raised StopIteration no later call returns a record
C2_CompletionIsTerminal == [][signalled => delivered' = delivered]_vars

\* C3: no two records pushed onto the results queue carry the same uid
C3_NoDuplicateEntity ==
    \A i, j \in 1..Len(pushed) : i # j => pushed[i].uid # pushed[j].uid

\* C5: the number of running tasks never exceeds the concurrency argument
C5_PoolBounded == running <= concurrency

\* witness of C5: the pool is full and the caller holds one more URL
C5_PoolFull == running = concurrency /\ mainpc = "spawn"

\* C6: no URL is handed to a task more than once
C6_DispatchedOnce == \A u \in URLs : dispatchCount[u] <= 1

\* witness of C6: a URL that has its task was dequeued again and dropped
C6_DuplicateDropped ==
    \E u \in URLs : <<u, "seen">> \in dropped /\ dispatchCount[u] = 1

\* C7: a URL is on the queue at most once at any instant
C7_FrontierNoDuplicates ==
    \A i, j \in 1..Len(queue) : i # j => queue[i] # queue[j]

C9_InvalidPageNoEffect ==
    [][\A u \in URLs :
          (outcome[u] # "invalid" /\ outcome'[u] = "invalid")
             => UNCHANGED <<queue, results, seen_app_ids, pushed>>]_vars

\* witness of C9: some fetched page was rejected by is_page_valid
C9_InvalidPageSeen == \E u \in URLs : outcome[u] = "invalid"

\* C10: a task answered 404 or another non-200 code changes neither the
\* queue, the results queue nor seen_app_ids, gives back exactly its own
\* slot, and its URL stays in seen and is never handed to a task again
C10_FailedFetchIsolated ==
    [][\A u \in URLs :
          /\ (outcome[u] = "none" /\ outcome'[u] \in {"notfound", "failed"})
                => /\ UNCHANGED <<queue, results, seen_app_ids, seen, pushed>>
                   /\ u \in seen
                   /\ tasks' = tasks (-) SetToBag({Task(u, "urlopen")})
                   /\ running' = running - 1
          /\ outcome[u] \in {"notfound", "failed"}
                => /\ dispatchCount'[u] = dispatchCount[u]
                   /\ outcome'[u] = outcome[u]]_vars

\* witness of C10: a fetch has failed while another task is in flight
C10_FailureWithOthersInFlight ==
    \E u \in URLs : outcome[u] \in {"notfound", "failed"} /\ running > 0

\* q begins with p
IsPrefix(p, q) == Len(p) <= Len(q) /\ SubSeq(q, 1, Len(p)) = p

C12_ExtractionFailureCounted ==
    [][\A u \in URLs :
          (outcome[u] = "none" /\ outcome'[u] \in {"unreadable", "raised"})
             => /\ failed' > failed
                /\ results' = results
                /\ tasks' = tasks (-) SetToBag({Task(u, "read")})]_vars

\* C13: inside next() the loop test and the dequeue are only reached with an
\* empty results queue: a record that is there is returned first
C13_ResultsCheckedEveryStep == mainpc \in {"while", "get"} => results = <<>>

\* C14: a call of next() on a non-empty results queue removes its head,
\* returns it, and changes nothing else
C14_FastPathFrame ==
    [][(mainpc = "idle" /\ results # <<>> /\ tasks' = tasks)
          => /\ results' = Tail(results)
             /\ delivered' = Append(delivered, Head(results))
             /\ mainpc' = "idle"
             /\ lastReturn' = "fast"
             /\ UNCHANGED <<queue, seen, seen_app_ids, dispatchCount, failed,
                            pushed, dropped, outcome>>]_vars

\* witness of C14: the last call returned on the fast path while URLs were
\* pending on the queue
C14_FastPathTaken == lastReturn = "fast" /\ queue # <<>> /\ mainpc = "idle"

\* C15: the records delivered so far, followed by those waiting in results,
\* are the records pushed, in the order they were pushed
C15_Fifo == pushed = delivered \o results

\* witness of C15: two different records have been delivered
C15_TwoDelivered == Len(delivered) = 2 /\ delivered[1] # delivered[2]

\* C16 as stated: while the pool is at capacity no URL leaves the queue and
\* none enters seen
C16_NothingMovesAtCapacity ==
    [][running = concurrency => (seen' = seen /\ IsPrefix(queue, queue'))]_vars

\* C16 amended: a task is started only below capacity; at capacity the loop
\* still dequeues, and a URL that passes both tests enters seen and is held
\* by the blocked spawn_n; while spawn_n is blocked nothing leaves the queue
\* and nothing enters seen
C16_StartsBelowCapacity ==
    [][/\ \A u \in URLs :
             dispatchCount'[u] # dispatchCount[u]
                => (running < concurrency /\ running' = running + 1 /\ u \in seen')
       /\ (mainpc = "spawn" /\ running = concurrency)
             => (seen' = seen /\ IsPrefix(queue, queue'))
       /\ (seen' # seen /\ running = concurrency)
             => (mainpc' = "spawn" /\ seen' = seen \cup {url'})]_vars

\* witness of C16: at capacity a URL has left the queue and entered seen and
\* waits in spawn_n for its task
C16_HeldAtCapacity ==
    /\ mainpc = "spawn"
    /\ running = concurrency
    /\ url \in seen
    /\ dispatchCount[url] = 0

\* C17: no step removes an element from seen or from seen_app_ids
C17_SeenSetsGrow ==
    [][seen \subseteq seen' /\ seen_app_ids \subseteq seen_app_ids']_vars

\* witness of C17: completion after pulls, dispatches, a drop and tasks of
\* the seed and both app pages
C17_AllKindsOfSteps ==
    /\ signalled
    /\ seen = {Root, AppA, AppA2}
    /\ seen_app_ids = {"A"}
    /\ dropped # {}

\* C18: a task is started only by a step of next() past the fast path; a
\* step taken while the consumer is outside next(), or the fast path itself,
\* dequeues nothing, leaves seen as it is and never raises the number of
\* running tasks
C18_DispatchOnlyInsidePull ==
    [][/\ dispatchCount' # dispatchCount => mainpc \in {"get", "wait", "spawn"}
       /\ (mainpc = "idle" /\ mainpc' = "idle")
             => /\ seen' = seen
                /\ dispatchCount' = dispatchCount
                /\ running' <= running
                /\ IsPrefix(queue, queue')]_vars

\* witness of C18: the consumer is between two pulls, no task is running and
\* URLs are pending on the queue
C18_PendingWhileNotPulling ==
    /\ mainpc = "idle"
    /\ lastReturn \in {"fast", "loop"}
    /\ running = 0
    /\ queue # <<>>

\* C19: a dequeued URL whose id is in seen_app_ids is dropped: no task, not
\* added to seen; and once completion is signalled every URL found on a
\* valid page is in seen or was dropped by one of the two tests
C19_IdGateDrops ==
    [][/\ \A u \in URLs :
             (<<u, "seen_app_ids">> \in dropped' \ dropped)
                => /\ get_id(u) \in seen_app_ids
                   /\ u \notin seen'
                   /\ UNCHANGED <<seen, tasks, dispatchCount>>
       /\ signalled'
             => \A p \in URLs : \A u \in page_links'[p] :
                   \/ u \in seen'
                   \/ <<u, "seen">> \in dropped'
                   \/ <<u, "seen_app_ids">> \in dropped']_vars

\* witness of C19: completion with a URL dropped for its id and never fetched
C19_DroppedForId ==
    /\ signalled
    /\ \E p \in URLs : AppA2 \in page_links[p]
    /\ <<AppA2, "seen_app_ids">> \in dropped
    /\ AppA2 \notin seen

\* C20: when fetch_app_info raises, the links of the page are on the queue
\* already and stay there; seen_app_ids and results are as before the task
C20_LinksSurviveRaise ==
    [][\A u \in URLs :
          (outcome[u] # "raised" /\ outcome'[u] = "raised")
             => /\ UNCHANGED <<seen_app_ids, results, pushed>>
                /\ IsPrefix(queue, queue')
                /\ Range(SubSeq(queue', Len(queue) + 1, Len(queue'))) = page_links'[u]]_vars

\* witness of C20: a URL found only on a page whose extraction raised has
\* got its task
C20_LinkOfRaisedPageDispatched ==
    \E u, v \in URLs :
       /\ u # v
       /\ outcome[u] = "raised"
       /\ v \in page_links[u]
       /\ v \notin page_links[Root]
       /\ dispatchCount[v] = 1
====
